---------------------------- MODULE Spec2Model ----------------------------
(***************************************************************************)
(* The hybrid movie recommender (src/app/recommender.py, routes.py):      *)
(* title resolution and content similarity, collaborative prediction from *)
(* the factor matrices, the blended ranking of hybrid_recommend, the      *)
(* request validation of the Flask routes, catalog loading, the rating    *)
(* matrix of the collaborative training and the combined text; the movie  *)
(* search of /api/movies; and, file by file and step by step, save_models,*)
(* load_models, get_recommender under threaded requests, /api/status and  *)
(* the training run of train.py.                                          *)
(*                                                                        *)
(* Floating point numbers are modelled as exact fractions <<n, d>> in     *)
(* lowest terms with d > 0; <<0, 0>> is NaN.  Row indices are 0-based as  *)
(* in the source; sequences are 1-based, so row r of a table t is t[r+1]. *)
(***************************************************************************)
EXTENDS Integers, Sequences, FiniteSets, TLC

VARIABLES
    movies_df,          \* item table: sequence of [movie_id, title]
    ratings_df,         \* rating records: sequence of [userId, movieId, rating]
    tfidf_matrix,       \* one term-weight vector per catalog row
    movie_id_to_index,  \* external id -> catalog row
    index_to_movie_id,  \* catalog row -> external id
    user_id_to_idx,     \* user id -> row of user_factors
    item_id_to_idx,     \* external id -> row of item_factors
    user_factors,       \* one latent vector per known user
    item_factors,       \* one latent vector per rated item
    argsort_kind,       \* how this build's np.argsort orders equal values
    recommender,        \* the module's global recommender reference
    models_dir,         \* what the models directory holds on disk
    data_files,         \* what movies.json and ratings.csv hold on disk
    instances,          \* the recommender objects of the thread-level view
    threads,            \* each thread's (and the training run's) position
    call,               \* the last request: function name and arguments
    ret                 \* what that request returned (or that it raised)

bundle == <<movies_df, ratings_df, tfidf_matrix, movie_id_to_index,
            index_to_movie_id, user_id_to_idx, item_id_to_idx, user_factors,
            item_factors, argsort_kind>>
process == <<recommender, models_dir, data_files, instances, threads>>
vars == <<movies_df, ratings_df, tfidf_matrix, movie_id_to_index,
          index_to_movie_id, user_id_to_idx, item_id_to_idx, user_factors,
          item_factors, argsort_kind, recommender, models_dir, data_files,
          instances, threads, call, ret>>

---------------------------------------------------------------------------
(* Bounds *)

MaxMovies == 3
MaxRatings == 3

---------------------------------------------------------------------------
(* Exact arithmetic standing for float64 *)

Abs(x) == IF x < 0 THEN -x ELSE x

RECURSIVE GCD(_, _)
GCD(a, b) == IF b = 0 THEN a ELSE GCD(b, a % b)

NaN == <<0, 0>>
IsNaN(a) == a[2] = 0

Frac(n, d) ==
    IF d = 0 THEN NaN
    ELSE LET g == GCD(Abs(n), Abs(d))
             s == IF d < 0 THEN -1 ELSE 1
         IN  <<(s * n) \div g, (s * d) \div g>>

F(n) == <<n, 1>>

FAdd(a, b) == IF IsNaN(a) \/ IsNaN(b) THEN NaN
              ELSE Frac(a[1] * b[2] + b[1] * a[2], a[2] * b[2])
FSub(a, b) == IF IsNaN(a) \/ IsNaN(b) THEN NaN
              ELSE Frac(a[1] * b[2] - b[1] * a[2], a[2] * b[2])
FMul(a, b) == IF IsNaN(a) \/ IsNaN(b) THEN NaN
              ELSE Frac(a[1] * b[1], a[2] * b[2])
FDiv(a, b) == IF IsNaN(a) \/ IsNaN(b) THEN NaN
              ELSE Frac(a[1] * b[2], a[2] * b[1])

\* IEEE comparisons: every comparison with NaN is false.
FLt(a, b) == ~IsNaN(a) /\ ~IsNaN(b) /\ a[1] * b[2] < b[1] * a[2]
FLe(a, b) == ~IsNaN(a) /\ ~IsNaN(b) /\ a[1] * b[2] <= b[1] * a[2]

\* Python's builtin max(a, b) / min(a, b): the first argument is kept unless
\* the second is strictly greater / strictly smaller.
PyMax(a, b) == IF FLt(a, b) THEN b ELSE a
PyMin(a, b) == IF FLt(b, a) THEN b ELSE a

\* ndarray.max() / ndarray.min() of a non-empty sequence of non-NaN numbers.
ArrMax(s) == CHOOSE x \in {s[i] : i \in 1..Len(s)} :
                 \A j \in 1..Len(s) : FLe(s[j], x)
ArrMin(s) == CHOOSE x \in {s[i] : i \in 1..Len(s)} :
                 \A j \in 1..Len(s) : FLe(x, s[j])

RECURSIVE DotInt(_, _)
DotInt(u, v) == IF Len(u) = 0 THEN 0
                ELSE u[1] * v[1] + DotInt(Tail(u), Tail(v))

RECURSIVE Dot(_, _)
Dot(u, v) == IF Len(u) = 0 THEN F(0)
             ELSE FAdd(FMul(u[1], v[1]), Dot(Tail(u), Tail(v)))

---------------------------------------------------------------------------
(* Strings: sequences of characters; str.lower() folds the capitals the  *)
(* model's texts use.                                                    *)

LowerCh(c) ==
    IF c = "A" THEN "a" ELSE IF c = "B" THEN "b"
    ELSE IF c = "N" THEN "n" ELSE c
Lower(s) == [i \in 1..Len(s) |-> LowerCh(s[i])]

\* Python's  needle in hay  on strings.
StrIn(needle, hay) ==
    \E i \in 0..(Len(hay) - Len(needle)) :
        SubSeq(hay, i + 1, i + Len(needle)) = needle

---------------------------------------------------------------------------
(* Inputs: the catalogs and rating models a trained bundle is drawn from *)

\* Item records as load_data reads them, each with the term-weight vector
\* that prepare_content_data derives for it.  Vectors have integer norms so
\* that every cosine is an exact fraction; <<0, 0>> is an item none of whose
\* terms is in the vocabulary.
ItemPool ==
    { [movie_id |-> 1, title |-> <<"A", "b">>, vec |-> <<1, 0>>],
      [movie_id |-> 2, title |-> <<"B">>,      vec |-> <<1, 0>>],
      [movie_id |-> 3, title |-> <<"a">>,      vec |-> <<0, 0>>],
      [movie_id |-> 2, title |-> <<"a", "b">>, vec |-> <<3, 4>>] }

Catalogs == UNION { [1..n -> ItemPool] : n \in 1..MaxMovies }

\* user_ids and item_ids as train_collaborative_model leaves them (the
\* pivot table's sorted index and columns), with factor matrices.
UserIds == <<1, 2>>
ItemIds == <<1, 2>>

UserFactorPool ==
    { << <<F(1), F(1)>>, <<F(1), F(0)>> >>,
      << <<F(-1), F(2)>>, <<Frac(1, 2), F(1)>> >> }

ItemFactorPool ==
    { << <<F(1), F(1)>>, <<F(6), F(3)>> >>,
      << <<F(0), F(-1)>>, <<F(4), Frac(1, 2)>> >>,
      << <<NaN, F(0)>>, <<F(2), F(1)>> >> }

\* Request parameters.
Queries == { <<"b">>, <<"A", "B">>, <<"a">>, <<"c">> }
UserQueries == {2, 9}
Alphas == { F(0), Frac(3, 5), F(1) }
TopKs == {1, 2}
TopNs == {1, 2}

---------------------------------------------------------------------------
(* load_data: the catalog id maps *)

NRows == Len(movies_df)
Rows == 0..(NRows - 1)

\* {movie_id: idx for idx, movie_id in enumerate(movies_df['movie_id'])}:
\* a later row overwrites an earlier one with the same id.
MovieIdToIndex(df) ==
    [id \in {df[i].movie_id : i \in 1..Len(df)} |->
        (CHOOSE i \in 1..Len(df) :
            /\ df[i].movie_id = id
            /\ \A j \in 1..Len(df) : df[j].movie_id = id => j <= i) - 1]

\* {idx: movie_id for movie_id, idx in movie_id_to_index.items()}
IndexToMovieId(m) ==
    [idx \in {m[id] : id \in DOMAIN m} |->
        CHOOSE id \in DOMAIN m : m[id] = idx]

\* {uid: idx for idx, uid in enumerate(ids)}, ids without repetition
IdToIdx(ids) ==
    [id \in {ids[i] : i \in 1..Len(ids)} |->
        (CHOOSE i \in 1..Len(ids) : ids[i] = id) - 1]

---------------------------------------------------------------------------
(* get_content_similarity *)

None == -1

\* First loop: the first row whose title equals the query, both lowercased.
FindExact(movie_title) ==
    IF \E r \in Rows : Lower(movies_df[r + 1].title) = Lower(movie_title)
    THEN CHOOSE r \in Rows :
            /\ Lower(movies_df[r + 1].title) = Lower(movie_title)
            /\ \A s \in Rows :
                   Lower(movies_df[s + 1].title) = Lower(movie_title) => r <= s
    ELSE None

\* Second loop: the first row whose lowercased title contains the query.
FindPartial(movie_title) ==
    IF \E r \in Rows : StrIn(Lower(movie_title), Lower(movies_df[r + 1].title))
    THEN CHOOSE r \in Rows :
            /\ StrIn(Lower(movie_title), Lower(movies_df[r + 1].title))
            /\ \A s \in Rows :
                   StrIn(Lower(movie_title), Lower(movies_df[s + 1].title))
                       => r <= s
    ELSE None

FindMovieIdxPartialFirst(movie_title) ==
    IF FindPartial(movie_title) # None THEN FindPartial(movie_title)
    ELSE FindExact(movie_title)

FindMovieIdxDefaultRow(movie_title) ==
    IF FindExact(movie_title) # None THEN FindExact(movie_title)
    ELSE IF FindPartial(movie_title) # None THEN FindPartial(movie_title)
    ELSE 0

\* The row the title resolves to: the partial loop runs only when the exact
\* loop found nothing.
FindMovieIdx(movie_title) ==
    IF FindExact(movie_title) # None THEN FindExact(movie_title)
    ELSE FindPartial(movie_title)

ISqrt(n) == CHOOSE k \in 0..n : k * k = n
Norm(v) == ISqrt(DotInt(v, v))

\* sklearn's normalize: a row is divided by its L2 norm, a zero row is left
\* as it is.
Normalize(v) ==
    LET n == IF Norm(v) = 0 THEN 1 ELSE Norm(v)
    IN  [i \in 1..Len(v) |-> Frac(v[i], n)]

\* cosine_similarity(movie_vector, tfidf_matrix).flatten()
cosine_similarity(movie_vector, matrix) ==
    [i \in 1..Len(matrix) |-> Dot(Normalize(movie_vector), Normalize(matrix[i]))]

\* np.argsort(values): the positions (0-based) in ascending order of value.
\* The default sort kind ('quicksort') is not a stable sort: a build whose
\* introsort falls back to insertion sort on short arrays keeps equal values
\* in position order ("stable"); a build that dispatches to a vectorised
\* sort may return them in any order ("unstable"), the stable one included.
Argsort(values) ==
    LET n == Len(values)
    IN  { [i \in 1..n |-> p[i] - 1] :
            p \in { q \in [1..n -> 1..n] :
                      /\ \A i, j \in 1..n : i # j => q[i] # q[j]
                      /\ \A i \in 1..(n - 1) :
                             /\ FLe(values[q[i]], values[q[i + 1]])
                             /\ (argsort_kind = "stable"
                                   /\ values[q[i]] = values[q[i + 1]])
                                    => q[i] < q[i + 1] } }

\* s[::-1]
Reversed(s) == [i \in 1..Len(s) |-> s[Len(s) + 1 - i]]

Min2(a, b) == IF a <= b THEN a ELSE b

\* s[lo:hi] for 0 <= lo <= hi
Slice(s, lo, hi) == SubSeq(s, lo + 1, Min2(hi, Len(s)))

\* The function's possible return values: [] when the title resolves to no
\* row, else the (row, score) pairs of the reversed argsort with its first
\* entry dropped, cut to top_k.
get_content_similarity(movie_title, top_k) ==
    LET movie_idx == FindMovieIdx(movie_title)
    IN  IF movie_idx = None THEN { <<>> }
        ELSE LET similarities ==
                     cosine_similarity(tfidf_matrix[movie_idx + 1], tfidf_matrix)
             IN  { LET similar_indices == Slice(Reversed(order), 1, top_k + 1)
                   IN  [i \in 1..Len(similar_indices) |->
                          <<similar_indices[i],
                            similarities[similar_indices[i] + 1]>>] :
                     order \in Argsort(similarities) }

---------------------------------------------------------------------------
(* get_collaborative_scores *)

\* The score given when the user or the item is not in the rating data.
DefaultScoreZero == F(0)

DEFAULT_SCORE == Frac(5, 2)

ClampRatingNoClamp(predicted_rating) == predicted_rating

\* max(1.0, min(5.0, predicted_rating))
ClampRating(predicted_rating) == PyMax(F(1), PyMin(F(5), predicted_rating))

\* The catalog row taken for the row of the item-factor matrix.
ItemScoreByRow(user_vector, movie_idx) ==
    IF movie_idx + 1 \in DOMAIN item_factors
    THEN ClampRating(Dot(user_vector, item_factors[movie_idx + 1]))
    ELSE DEFAULT_SCORE

\* One pass of the loop body for a row that has an external id.
ItemScore(user_vector, movie_idx) ==
    LET movie_id == index_to_movie_id[movie_idx]
    IN  IF movie_id \in DOMAIN item_id_to_idx
        THEN ClampRating(Dot(user_vector,
                             item_factors[item_id_to_idx[movie_id] + 1]))
        ELSE DEFAULT_SCORE

\* The outcome of a call: error is "" and value is the returned list, or
\* error is "KeyError" (index_to_movie_id has no entry for a row) and value
\* is the local list scores as it stood when the lookup raised.
get_collaborative_scores(user_id, movie_indices) ==
    IF user_id \notin DOMAIN user_id_to_idx
    THEN [error |-> "",
          value |-> [i \in 1..Len(movie_indices) |-> DEFAULT_SCORE]]
    ELSE LET user_vector == user_factors[user_id_to_idx[user_id] + 1]
             bad == { i \in 1..Len(movie_indices) :
                        movie_indices[i] \notin DOMAIN index_to_movie_id }
             done == IF bad = {} THEN Len(movie_indices)
                     ELSE (CHOOSE i \in bad : \A j \in bad : i <= j) - 1
         IN  [error |-> IF bad = {} THEN "" ELSE "KeyError",
              value |-> [i \in 1..done |->
                            ItemScore(user_vector, movie_indices[i])]]

---------------------------------------------------------------------------
(* hybrid_recommend *)

\* top_k of the candidate fetch
CandidateK == 100

\* Min-max normalisation of the content scores, applied only when the
\* maximum exceeds the minimum.
NormalizeContent(content_scores) ==
    IF FLt(ArrMin(content_scores), ArrMax(content_scores))
    THEN [i \in 1..Len(content_scores) |->
            FDiv(FSub(content_scores[i], ArrMin(content_scores)),
                 FSub(ArrMax(content_scores), ArrMin(content_scores)))]
    ELSE content_scores

NormalizeCollabNoShift(collab_scores) ==
    [i \in 1..Len(collab_scores) |-> FDiv(collab_scores[i], F(4))]

\* (collab_scores - 1) / 4
NormalizeCollab(collab_scores) ==
    [i \in 1..Len(collab_scores) |-> FDiv(FSub(collab_scores[i], F(1)), F(4))]

\* The weights the other way round: alpha on the collaborative side.
BlendSwapped(alpha, content_scores, collab_scores) ==
    [i \in 1..Len(content_scores) |->
        FAdd(FMul(alpha, collab_scores[i]),
             FMul(FSub(F(1), alpha), content_scores[i]))]

\* alpha * content_scores + (1 - alpha) * collab_scores
Blend(alpha, content_scores, collab_scores) ==
    [i \in 1..Len(content_scores) |->
        FAdd(FMul(alpha, content_scores[i]),
             FMul(FSub(F(1), alpha), collab_scores[i]))]

EmptyFrame ==
    [error |-> "", value |-> <<>>, movie_indices |-> <<>>,
     raw_content |-> <<>>, raw_collab |-> <<>>, top_rows |-> <<>>]

\* The possible outcomes of a call.  value is the returned frame, one record
\* per row; movie_indices, raw_content and raw_collab are the candidate rows
\* with their scores before normalisation, and top_rows the catalog rows of
\* the returned records, kept to state properties of the ranking.
hybrid_recommend(user_id, movie_title, alpha, top_n) ==
    UNION {
      IF Len(content_similarities) = 0 THEN { EmptyFrame }
      ELSE
        LET movie_indices == [i \in 1..Len(content_similarities) |->
                                 content_similarities[i][1]]
            raw_content == [i \in 1..Len(content_similarities) |->
                               content_similarities[i][2]]
            collab == get_collaborative_scores(user_id, movie_indices)
            locals == [movie_indices |-> movie_indices,
                       raw_content |-> raw_content,
                       raw_collab |-> collab.value]
        IN  IF collab.error # ""
            THEN { [error |-> collab.error, value |-> <<>>,
                    top_rows |-> <<>>] @@ locals }
            ELSE
              LET content_scores == NormalizeContent(raw_content)
                  collab_scores == NormalizeCollab(collab.value)
                  hybrid_scores == Blend(alpha, content_scores, collab_scores)
              IN  { LET top_indices == Slice(Reversed(order), 0, top_n)
                        top_rows == [i \in 1..Len(top_indices) |->
                                        movie_indices[top_indices[i] + 1]]
                    IN  IF \E i \in 1..Len(top_rows) :
                               top_rows[i] \notin DOMAIN index_to_movie_id
                        THEN [error |-> "KeyError", value |-> <<>>,
                              top_rows |-> <<>>] @@ locals
                        ELSE [error |-> "",
                              value |->
                                [i \in 1..Len(top_indices) |->
                                   [movie_id |-> index_to_movie_id[top_rows[i]],
                                    title |-> movies_df[top_rows[i] + 1].title,
                                    score |-> hybrid_scores[top_indices[i] + 1],
                                    content_score |->
                                        content_scores[top_indices[i] + 1],
                                    collab_score |->
                                        collab_scores[top_indices[i] + 1]]],
                              top_rows |-> top_rows] @@ locals
                    : order \in Argsort(hybrid_scores) }
      : content_similarities \in get_content_similarity(movie_title, CandidateK) }

---------------------------------------------------------------------------
(* The state machine: a loaded bundle serving requests *)

NoCall == [fn |-> "none", user_id |-> 0, movie_title |-> <<>>, top_k |-> 0,
           movie_indices |-> <<>>, alpha |-> F(0), top_n |-> 0]

NoResult == [error |-> "", value |-> <<>>]

\* Python's None in a field the constructor has set and nothing has loaded.
Unset == "None"

\* The global reference: None, an instance whose load_models has not
\* completed (its fields as the constructor left them), or a loaded one.
NoRecommender == "None"
Created == "created"
Loaded == "loaded"

\* Data files the serving process never reads.
NoData == [movies |-> <<>>, ratings |-> <<>>]

\* The models directory without the artifact files.
NoFiles == [present |-> FALSE]

\* What save_models writes from the fields, and load_models reads back.
Artifacts ==
    [present |-> TRUE,
     movies_df |-> movies_df, tfidf_matrix |-> tfidf_matrix,
     movie_id_to_index |-> movie_id_to_index,
     index_to_movie_id |-> index_to_movie_id,
     user_id_to_idx |-> user_id_to_idx, item_id_to_idx |-> item_id_to_idx,
     user_factors |-> user_factors, item_factors |-> item_factors]

\* A bundle trained from one of the catalogs and loaded from the models
\* directory, served by a build of the given argsort kind.
InitFrom(catalogs, kind) ==
    /\ \E catalog \in catalogs :
        /\ movies_df = [i \in 1..Len(catalog) |->
                           [movie_id |-> catalog[i].movie_id,
                            title |-> catalog[i].title]]
        /\ tfidf_matrix = [i \in 1..Len(catalog) |-> catalog[i].vec]
        /\ movie_id_to_index = MovieIdToIndex(catalog)
        /\ index_to_movie_id = IndexToMovieId(MovieIdToIndex(catalog))
    /\ user_id_to_idx = IdToIdx(UserIds)
    /\ item_id_to_idx = IdToIdx(ItemIds)
    /\ user_factors \in UserFactorPool
    /\ item_factors \in ItemFactorPool
    /\ ratings_df = Unset
    /\ argsort_kind = kind
    /\ recommender = Loaded
    /\ models_dir = Artifacts
    /\ data_files = NoData
    /\ instances = <<>> /\ threads = <<>>
    /\ call = NoCall
    /\ ret = NoResult

\* Any catalog load_data accepts (it checks neither emptiness nor ids, but
\* raises on an empty table), any order of equal values.
Init == InitFrom(Catalogs, "unstable")

\* Catalogs whose external ids are unique, on a build whose sort is stable.
UniqueIdCatalogs ==
    { c \in Catalogs :
        \A i, j \in 1..Len(c) : c[i].movie_id = c[j].movie_id => i = j }

InitStable == InitFrom(UniqueIdCatalogs, "stable")

\* Candidate lists handed to get_collaborative_scores: up to two distinct
\* catalog rows, in any order.
IndexLists ==
    { <<>> } \cup { <<r>> : r \in Rows }
             \cup { <<p[1], p[2]>> : p \in { q \in Rows \X Rows : q[1] # q[2] } }

\* ret.movie_idx is the local movie_idx of the call (None when no title
\* matched), kept to state properties of the title resolution.
GetContentSimilarity ==
    \E movie_title \in Queries, top_k \in TopKs :
        /\ call.fn = "none"
        /\ call' = [NoCall EXCEPT !.fn = "get_content_similarity",
                                  !.movie_title = movie_title,
                                  !.top_k = top_k]
        /\ \E value \in get_content_similarity(movie_title, top_k) :
               ret' = [error |-> "", value |-> value,
                       movie_idx |-> FindMovieIdx(movie_title)]
        /\ UNCHANGED <<bundle, process>>

GetCollaborativeScores ==
    \E user_id \in UserQueries, movie_indices \in IndexLists :
        /\ call.fn = "none"
        /\ call' = [NoCall EXCEPT !.fn = "get_collaborative_scores",
                                  !.user_id = user_id,
                                  !.movie_indices = movie_indices]
        /\ ret' = get_collaborative_scores(user_id, movie_indices)
        /\ UNCHANGED <<bundle, process>>

HybridRecommend ==
    \E user_id \in UserQueries, movie_title \in Queries,
       alpha \in Alphas, top_n \in TopNs :
        /\ call.fn = "none"
        /\ call' = [NoCall EXCEPT !.fn = "hybrid_recommend",
                                  !.user_id = user_id,
                                  !.movie_title = movie_title,
                                  !.alpha = alpha,
                                  !.top_n = top_n]
        /\ ret' \in hybrid_recommend(user_id, movie_title, alpha, top_n)
        /\ UNCHANGED <<bundle, process>>

\* The caller takes the result; the recommender is ready for the next request.
Respond ==
    /\ call.fn # "none"
    /\ "parsed" \notin DOMAIN ret
    /\ call' = NoCall
    /\ ret' = NoResult
    /\ UNCHANGED <<bundle, process>>

Next ==
    \/ GetContentSimilarity
    \/ GetCollaborativeScores
    \/ HybridRecommend
    \/ Respond

Spec == Init /\ [][Next]_vars

SpecStable == InitStable /\ [][Next]_vars

---------------------------------------------------------------------------
(* Vocabulary of the properties *)

IsContentCall == call.fn = "get_content_similarity"
IsCollabCall == call.fn = "get_collaborative_scores"
IsHybridCall == call.fn = "hybrid_recommend"

MinOf(S) == CHOOSE x \in S : \A y \in S : x <= y

\* Rows whose title equals / contains the requested title, ignoring case.
ExactRows == { r \in Rows : Lower(movies_df[r + 1].title) = Lower(call.movie_title) }
PartialRows == { r \in Rows : StrIn(Lower(call.movie_title), Lower(movies_df[r + 1].title)) }

\* The row a matching title stands for: lowest exact match, else lowest
\* containing row.
QueryRow == IF ExactRows # {} THEN MinOf(ExactRows) ELSE MinOf(PartialRows)

\* Cosine of catalog rows q and r, a zero vector having cosine 0.
Cosine(q, r) ==
    LET a == tfidf_matrix[q + 1]
        b == tfidf_matrix[r + 1]
    IN  IF Norm(a) = 0 \/ Norm(b) = 0 THEN F(0)
        ELSE Frac(DotInt(a, b), Norm(a) * Norm(b))

\* The rows of S ranked by score descending, equal scores by ascending row,
\* cut to the first n.
Ranked(S, score(_), n) ==
    LET before(r) == { s \in S : \/ FLt(score(r), score(s))
                                 \/ (score(s) = score(r) /\ s < r) }
    IN  [i \in 1..Min2(n, Cardinality(S)) |->
            CHOOSE r \in S : Cardinality(before(r)) = i - 1]

---------------------------------------------------------------------------
(* Properties of get_content_similarity *)

\* C1: for a title that matches a catalog row q, get_content_similarity
\* returns no pair whose row is q, whatever the similarity values are.
C1_QueryRowExcluded ==
    (IsContentCall /\ PartialRows # {}) =>
        \A i \in 1..Len(ret.value) : ret.value[i][1] # QueryRow

\* C2: for a matched row q, get_content_similarity(title, k) returns exactly
\* the min(k, N-1) highest-scoring rows other than q, in descending score
\* order, rows of equal score in ascending row order.
C2_TopKOthersRanked ==
    (IsContentCall /\ PartialRows # {}) =>
        LET top == Ranked(Rows \ {QueryRow},
                          LAMBDA r : Cosine(QueryRow, r), call.top_k)
        IN  ret.value = [i \in 1..Len(top) |->
                            <<top[i], Cosine(QueryRow, top[i])>>]

\* C3: the title resolves to the lowest row whose title equals it ignoring
\* case; only when no row matches exactly, to the lowest row whose title
\* contains it ignoring case; the returned scores are the similarities to
\* that row.  An exact match at a higher row wins over a containing title at
\* a lower row.
C3_TitleResolution ==
    IsContentCall =>
        /\ ExactRows # {} => ret.movie_idx = MinOf(ExactRows)
        /\ (ExactRows = {} /\ PartialRows # {}) =>
               ret.movie_idx = MinOf(PartialRows)
        /\ PartialRows # {} =>
               \A i \in 1..Len(ret.value) :
                   ret.value[i][2] = Cosine(QueryRow, ret.value[i][1])

\* C3 witness: an exact match wins over a containing title at a lower row.
C3_Witness ==
    /\ IsContentCall
    /\ ExactRows # {}
    /\ \E p \in PartialRows : p < MinOf(ExactRows)
    /\ ret.movie_idx = MinOf(ExactRows)
    /\ Len(ret.value) > 0

\* C4: when the title matches no catalog title, neither exactly nor as a
\* substring, get_content_similarity returns the empty list and
\* hybrid_recommend returns an empty frame, without an error, for every user,
\* alpha and top_n.
C4_NoMatchEmpty ==
    ((IsContentCall \/ IsHybridCall) /\ PartialRows = {}) =>
        /\ ret.error = ""
        /\ ret.value = <<>>

\* C4 witness: a known user asks for an unmatched title in a catalog of
\* several rows and gets the empty frame.
C4_Witness ==
    /\ IsHybridCall
    /\ PartialRows = {}
    /\ NRows >= 2
    /\ call.user_id \in DOMAIN user_id_to_idx
    /\ ret.error = ""
    /\ ret.value = <<>>

---------------------------------------------------------------------------
(* Properties of get_collaborative_scores *)

InRange(x, lo, hi) == FLe(lo, x) /\ FLe(x, hi)

UserKnown == call.user_id \in DOMAIN user_id_to_idx

\* Row r has an external id, and that id is (not) in the rating space.
HasId(r) == r \in DOMAIN index_to_movie_id
Rated(r) == HasId(r) /\ index_to_movie_id[r] \in DOMAIN item_id_to_idx
Unrated(r) == HasId(r) /\ index_to_movie_id[r] \notin DOMAIN item_id_to_idx

\* dot(user_factors[u], item_factors[i]) for a known user and a rated row
Prediction(user_id, r) ==
    Dot(user_factors[user_id_to_idx[user_id] + 1],
        item_factors[item_id_to_idx[index_to_movie_id[r]] + 1])

\* C5: every score get_collaborative_scores returns lies in [1, 5], for
\* every user (known or not), every candidate row (rated or not) and every
\* value of the factor matrices; the list has one score per candidate, the
\* i-th score being the score of the i-th candidate.
C5_ScoresInRatingRange ==
    (IsCollabCall /\ ret.error = "") =>
        /\ Len(ret.value) = Len(call.movie_indices)
        /\ \A i \in 1..Len(ret.value) :
            /\ InRange(ret.value[i], F(1), F(5))
            /\ ret.value[i] =
                 get_collaborative_scores(call.user_id,
                                          <<call.movie_indices[i]>>).value[1]

\* C5 witness: a known user, one candidate whose dot product exceeds 5 and
\* is returned as 5, followed by one never rated.
C5_Witness ==
    /\ IsCollabCall
    /\ UserKnown
    /\ ret.error = ""
    /\ Len(ret.value) = 2
    /\ Rated(call.movie_indices[1])
    /\ FLt(F(5), Prediction(call.user_id, call.movie_indices[1]))
    /\ ret.value[1] = F(5)
    /\ Unrated(call.movie_indices[2])

\* C6: get_collaborative_scores gives the neutral default 2.5, without
\* raising, to every candidate when the user is not in the user index, and,
\* for a known user, to each candidate whose external id is not in the
\* rating-space item index: such a candidate never makes the call raise.
C6_NeutralDefault ==
    IsCollabCall =>
        /\ ~UserKnown =>
            /\ ret.error = ""
            /\ ret.value = [i \in 1..Len(call.movie_indices) |-> Frac(5, 2)]
        /\ UserKnown =>
            /\ \A i \in 1..Len(ret.value) :
                   Unrated(call.movie_indices[i]) => ret.value[i] = Frac(5, 2)
            /\ ret.error = "" => Len(ret.value) = Len(call.movie_indices)
            /\ ret.error # "" =>
                   ~HasId(call.movie_indices[Len(ret.value) + 1])

\* C6 witness: a known user, a rated candidate scored from the factors and
\* a never-rated candidate scored 2.5.
C6_Witness ==
    /\ IsCollabCall
    /\ UserKnown
    /\ ret.error = ""
    /\ Len(ret.value) = 2
    /\ Rated(call.movie_indices[1])
    /\ ret.value[1] # Frac(5, 2)
    /\ Unrated(call.movie_indices[2])
    /\ ret.value[2] = Frac(5, 2)

---------------------------------------------------------------------------
(* Properties of hybrid_recommend *)

Returned == IsHybridCall /\ ret.error = "" /\ Len(ret.value) > 0

\* Position in the candidate list of the row returned i-th.
CandidatePos(i) ==
    CHOOSE p \in 1..Len(ret.movie_indices) :
        ret.movie_indices[p] = ret.top_rows[i]

\* C7: content scores are min-max normalised over the candidate set (the
\* minimum maps to 0, the maximum to 1), and when all candidates have the
\* same content score, a single candidate included, every returned
\* content_score is 0.
C7_MinMaxOrZero ==
    Returned =>
        LET lo == ArrMin(ret.raw_content)
            hi == ArrMax(ret.raw_content)
        IN  \A i \in 1..Len(ret.value) :
                ret.value[i].content_score =
                    IF lo = hi THEN F(0)
                    ELSE FDiv(FSub(ret.raw_content[CandidatePos(i)], lo),
                              FSub(hi, lo))

C9_AlphaOneContentOrder ==
    (Returned /\ call.alpha = F(1)) =>
        ret.top_rows = Slice(ret.movie_indices, 0, call.top_n)

\* C10: with alpha = 0 the candidates come ordered by collaborative
\* prediction alone: descending, equal predictions by ascending row index,
\* whatever their content scores.
C10_AlphaZeroCollabOrder ==
    (Returned /\ call.alpha = F(0)) =>
        ret.top_rows =
            Ranked({ret.movie_indices[p] : p \in 1..Len(ret.movie_indices)},
                   LAMBDA r : ret.raw_collab[
                       CHOOSE p \in 1..Len(ret.movie_indices) :
                           ret.movie_indices[p] = r],
                   call.top_n)

---------------------------------------------------------------------------
(* hybrid_recommend: the returned list *)

\* Some catalog title equals or contains the requested title.
TitleMatches == PartialRows # {}

\* C11: for a matching reference title hybrid_recommend draws from at most
\* 100 candidates, returns exactly min(top_n, number of candidates) items,
\* never returns the reference item itself, and returns the scores in
\* non-increasing order.
C11_HybridResultShape ==
    (IsHybridCall /\ ret.error = "" /\ TitleMatches) =>
        /\ Len(ret.movie_indices) <= CandidateK
        /\ Len(ret.value) = Min2(call.top_n, Len(ret.movie_indices))
        /\ \A i \in 1..Len(ret.top_rows) : ret.top_rows[i] # QueryRow
        /\ \A i \in 1..(Len(ret.value) - 1) :
               FLe(ret.value[i + 1].score, ret.value[i].score)

\* The blended score of every candidate of the call, by candidate position.
CandidateScores ==
    Blend(call.alpha, NormalizeContent(ret.raw_content),
          NormalizeCollab(ret.raw_collab))

\* C12: in the returned list, items with equal blended score come in
\* ascending catalog row order, and no candidate left out of the top top_n
\* has the score of a returned item and a smaller row index.
C12_TiesByAscendingRow ==
    Returned =>
        /\ \A i, j \in 1..Len(ret.value) :
               (i < j /\ ret.value[i].score = ret.value[j].score)
                   => ret.top_rows[i] < ret.top_rows[j]
        /\ \A p \in 1..Len(ret.movie_indices) :
               (\A i \in 1..Len(ret.top_rows) :
                    ret.top_rows[i] # ret.movie_indices[p])
                   => \A i \in 1..Len(ret.value) :
                          ~(/\ CandidateScores[p] = ret.value[i].score
                            /\ ret.movie_indices[p] < ret.top_rows[i])

\* C13: for a user absent from the rating data and alpha = 0, every item
\* hybrid_recommend returns has the blended score (2.5 - 1) / 4 = 0.375,
\* whatever the matching title and top_n.
C13_UnknownUserAlphaZero ==
    (Returned /\ ~UserKnown /\ call.alpha = F(0)) =>
        \A i \in 1..Len(ret.value) : ret.value[i].score = Frac(3, 8)

\* Two items returned to an unknown user under alpha = 0, their content
\* scores different.
C13_Witness ==
    /\ Returned /\ ~UserKnown /\ call.alpha = F(0)
    /\ Len(ret.value) = 2
    /\ ret.value[1].content_score # ret.value[2].content_score

---------------------------------------------------------------------------
(* hybrid_recommend called directly, with any alpha *)

\* Weights a direct caller can pass: the method takes any float.
AnyAlphas == Alphas \cup { Frac(-1, 10), Frac(11, 10) }

HybridRecommendAnyAlpha ==
    \E user_id \in UserQueries, movie_title \in Queries,
       alpha \in AnyAlphas, top_n \in TopNs :
        /\ call.fn = "none"
        /\ call' = [NoCall EXCEPT !.fn = "hybrid_recommend",
                                  !.user_id = user_id,
                                  !.movie_title = movie_title,
                                  !.alpha = alpha,
                                  !.top_n = top_n]
        /\ ret' \in hybrid_recommend(user_id, movie_title, alpha, top_n)
        /\ UNCHANGED <<bundle, process>>

NextAnyAlpha ==
    \/ GetContentSimilarity
    \/ GetCollaborativeScores
    \/ HybridRecommendAnyAlpha
    \/ Respond

SpecAnyAlpha == InitStable /\ [][NextAnyAlpha]_vars

\* C14: hybrid_recommend called with alpha outside [0,1] is rejected with a
\* ValueError before any score is computed; it returns no result computed
\* from that alpha or from a clamped one.
C14_InvalidAlphaRejected ==
    (IsHybridCall /\ ~InRange(call.alpha, F(0), F(1))) =>
        /\ ret.error = "ValueError"
        /\ ret.value = <<>>
        /\ ret.raw_content = <<>>
        /\ ret.raw_collab = <<>>

---------------------------------------------------------------------------
(* The Flask routes (src/app/routes.py): request parameters and parsing *)

\* A request parameter: absent, or present with its text.
Absent == [present |-> FALSE, text |-> <<>>]
Text(s) == [present |-> TRUE, text |-> s]

\* str.strip() on the blank the model's texts use.
RECURSIVE LStrip(_)
LStrip(s) == IF s # <<>> /\ Head(s) = " " THEN LStrip(Tail(s)) ELSE s

RECURSIVE RStrip(_)
RStrip(s) ==
    IF s # <<>> /\ s[Len(s)] = " " THEN RStrip(SubSeq(s, 1, Len(s) - 1)) ELSE s

Strip(s) == RStrip(LStrip(s))

Digits == <<"0", "1", "2", "3", "4", "5", "6", "7", "8", "9">>
IsDigit(c) == \E d \in 1..Len(Digits) : Digits[d] = c
DigitVal(c) == (CHOOSE d \in 1..Len(Digits) : Digits[d] = c) - 1
AllDigits(s) == \A i \in 1..Len(s) : IsDigit(s[i])

RECURSIVE DecVal(_)
DecVal(s) ==
    IF s = <<>> THEN 0
    ELSE DecVal(SubSeq(s, 1, Len(s) - 1)) * 10 + DigitVal(s[Len(s)])

RECURSIVE Pow10(_)
Pow10(n) == IF n = 0 THEN 1 ELSE 10 * Pow10(n - 1)

\* The text after an optional sign, and the sign.
Unsigned(t) == IF t # <<>> /\ t[1] \in {"-", "+"} THEN Tail(t) ELSE t
Sign(t) == IF t # <<>> /\ t[1] = "-" THEN -1 ELSE 1

\* int(text): blanks around, an optional sign, one or more digits; anything
\* else raises ValueError (ok = FALSE).
PyInt(s) ==
    LET t == Strip(s)
        body == Unsigned(t)
    IN  IF body # <<>> /\ AllDigits(body)
        THEN [ok |-> TRUE, value |-> Sign(t) * DecVal(body)]
        ELSE [ok |-> FALSE, value |-> 0]

\* float(text): blanks around, an optional sign, then "nan" or digits with
\* at most one point and a digit on one side of it.
PyFloat(s) ==
    LET t == Strip(s)
        body == Unsigned(t)
        points == { i \in 1..Len(body) : body[i] = "." }
        whole == IF points = {} THEN body
                 ELSE SubSeq(body, 1, (CHOOSE i \in points : TRUE) - 1)
        part == IF points = {} THEN <<>>
                ELSE SubSeq(body, (CHOOSE i \in points : TRUE) + 1, Len(body))
    IN  IF body = <<"n", "a", "n">> THEN [ok |-> TRUE, value |-> NaN]
        ELSE IF /\ Cardinality(points) <= 1
                /\ Len(whole) + Len(part) > 0
                /\ AllDigits(whole) /\ AllDigits(part)
        THEN [ok |-> TRUE,
              value |-> Frac(Sign(t) * DecVal(whole \o part), Pow10(Len(part)))]
        ELSE [ok |-> FALSE, value |-> NaN]

\* A parsed value, and Python's None where a value is expected.
Some(v) == [ok |-> TRUE, value |-> v]
NoValue == [ok |-> FALSE, value |-> 0]

\* request.args.get(key, default, type=T): the default when the key is
\* absent or T (int or float) raises ValueError on its text.
Convert(type, s) == IF type = "int" THEN PyInt(s) ELSE PyFloat(s)

ArgsGet(param, default, type) ==
    IF param.present /\ Convert(type, param.text).ok
    THEN Convert(type, param.text)
    ELSE default

\* request.args.get(key, '') and request.form.get(key, '')
GetText(param) == IF param.present THEN param.text ELSE <<>>

AlphaAcceptedAny(alpha) == TRUE

\* not (0 <= alpha <= 1) and not (1 <= top_n <= 50) reject the request.
AlphaAccepted(alpha) == FLe(F(0), alpha) /\ FLe(alpha, F(1))
TopNAccepted(top_n) == 1 <= top_n /\ top_n <= 50
\* Parameter texts a client can send.
TitleParams == { Absent, Text(<<>>), Text(<<" ">>), Text(<<"b">>), Text(<<"c">>) }
UserIdParams ==
    { Absent, Text(<<>>), Text(<<"1", ".", "5">>), Text(<<"2">>),
      Text(<<" ", "9">>) }
AlphaParams ==
    { Absent, Text(<<"1", ".", "5">>), Text(<<"-", "0", ".", "1">>),
      Text(<<"0">>), Text(<<"n", "a", "n">>), Text(<<"x">>) }
TopNParams ==
    { Absent, Text(<<"0">>), Text(<<"1">>), Text(<<"5", "0">>),
      Text(<<"5", "1">>) }

Requests ==
    [movie_title : TitleParams, user_id : UserIdParams,
     alpha : AlphaParams, top_n : TopNParams]

\* The instance is handed out and the global reference dropped.
get_recommender_once ==
    IF recommender = NoRecommender
    THEN IF models_dir.present
         THEN [recommender |-> Loaded, result |-> Loaded, loads |-> TRUE]
         ELSE [recommender |-> Created, result |-> NoRecommender,
               loads |-> FALSE]
    ELSE [recommender |-> NoRecommender, result |-> recommender,
          loads |-> FALSE]

\* get_recommender(): creates the instance when the global is None and
\* loads the models into it; FileNotFoundError leaves the instance in the
\* global and returns None.
get_recommender ==
    IF recommender = NoRecommender
    THEN IF models_dir.present
         THEN [recommender |-> Loaded, result |-> Loaded, loads |-> TRUE]
         ELSE [recommender |-> Created, result |-> NoRecommender,
               loads |-> FALSE]
    ELSE [recommender |-> recommender, result |-> recommender,
          loads |-> FALSE]

\* load_models: every artifact field is read from the models directory.
LoadModels ==
    /\ movies_df' = models_dir.movies_df
    /\ tfidf_matrix' = models_dir.tfidf_matrix
    /\ movie_id_to_index' = models_dir.movie_id_to_index
    /\ index_to_movie_id' = models_dir.index_to_movie_id
    /\ user_id_to_idx' = models_dir.user_id_to_idx
    /\ item_id_to_idx' = models_dir.item_id_to_idx
    /\ user_factors' = models_dir.user_factors
    /\ item_factors' = models_dir.item_factors
    /\ UNCHANGED <<ratings_df, argsort_kind>>

\* What a handler came to: rejected by validation, recommender unavailable,
\* an exception raised, an empty frame, or recommendations.
Outcome(kind, error, frame, invoked) ==
    [kind |-> kind, error |-> error, frame |-> frame, invoked |-> invoked]

\* /api/recommend answers JSON with a status code.
ApiResponse(o) ==
    [status |-> CASE o.kind = "rejected" -> 400
                  [] o.kind = "unavailable" -> 503
                  [] o.kind = "empty" -> 404
                  [] o.kind = "raised" -> 500
                  [] o.kind = "ok" -> 200,
     location |-> "",
     error |-> CASE o.kind = "unavailable" -> "Recommendation system not available"
                 [] o.kind = "empty" -> "No recommendations found"
                 [] o.kind = "ok" -> ""
                 [] OTHER -> o.error,
     value |-> o.frame,
     invoked |-> o.invoked]

\* /recommend renders the results or flashes a message and redirects to
\* the index.
FormResponse(o) ==
    [status |-> IF o.kind = "ok" THEN 200 ELSE 302,
     location |-> IF o.kind = "ok" THEN "" ELSE "main.index",
     error |-> CASE o.kind = "unavailable" ->
                        "Recommendation system not available. Please run train.py first."
                 [] o.kind = "empty" -> "No recommendations found"
                 [] o.kind = "ok" -> ""
                 [] OTHER -> o.error,
     value |-> o.frame,
     invoked |-> o.invoked]

\* The answer of the route the call came by.
Response(route, o) ==
    IF route = "api_recommend" THEN ApiResponse(o) ELSE FormResponse(o)

Reject(route, error) ==
    /\ ret' = Response(route, Outcome("rejected", error, <<>>, <<>>))
    /\ UNCHANGED <<bundle, process>>

Raise(route, error) ==
    /\ ret' = Response(route, Outcome("raised", error, <<>>, <<>>))
    /\ UNCHANGED <<bundle, process>>

\* The handler has validated the request and holds an instance: it is
\* about to call the module's hybrid_recommend with the parsed arguments.
Calling(user_id, movie_title, alpha, top_n) ==
    [status |-> 0, location |-> "", error |-> "", value |-> <<>>,
     invoked |-> <<"get_recommender">>,
     parsed |-> [user_id |-> user_id, movie_title |-> movie_title,
                 alpha |-> alpha, top_n |-> top_n]]

InHandler == "parsed" \in DOMAIN ret

\* recommender = get_recommender(), and the answer when it is None.
ObtainRecommender(user_id, movie_title, alpha, top_n, route) ==
    LET g == get_recommender
    IN  /\ recommender' = g.recommender
        /\ UNCHANGED <<models_dir, data_files, instances, threads>>
        /\ IF g.loads THEN LoadModels ELSE UNCHANGED bundle
        /\ ret' = IF g.result = NoRecommender
                  THEN Response(route, Outcome("unavailable", "", <<>>,
                                               <<"get_recommender">>))
                  ELSE Calling(user_id, movie_title, alpha, top_n)

ApiRecommend ==
    \E args \in Requests :
        /\ call.fn = "none"
        /\ call' = [fn |-> "api_recommend", args |-> args] @@ NoCall
        /\ LET movie_title == Strip(GetText(args.movie_title))
               user_id == ArgsGet(args.user_id, NoValue, "int")
               alpha == ArgsGet(args.alpha, Some(Frac(3, 5)), "float").value
               top_n == ArgsGet(args.top_n, Some(10), "int").value
           IN  IF movie_title = <<>>
               THEN Reject("api_recommend", "movie_title parameter is required")
               ELSE IF ~user_id.ok
               THEN Reject("api_recommend", "user_id parameter is required")
               ELSE IF ~AlphaAccepted(alpha)
               THEN Reject("api_recommend", "alpha must be between 0 and 1")
               ELSE IF ~TopNAccepted(top_n)
               THEN Reject("api_recommend", "top_n must be between 1 and 50")
               ELSE ObtainRecommender(user_id.value, movie_title, alpha,
                                      top_n, "api_recommend")

\* float() and int() of lines 33-34 run before the checks; their
\* ValueError, like that of int(user_id), ends in the handler's except
\* clause or its own, both redirecting to the index.
FormRecommend ==
    \E args \in Requests :
        /\ call.fn = "none"
        /\ call' = [fn |-> "recommend", args |-> args] @@ NoCall
        /\ LET movie_title == Strip(GetText(args.movie_title))
               user_id == Strip(GetText(args.user_id))
               alpha == IF args.alpha.present THEN PyFloat(args.alpha.text)
                        ELSE Some(Frac(3, 5))
               top_n == IF args.top_n.present THEN PyInt(args.top_n.text)
                        ELSE Some(10)
           IN  IF ~alpha.ok \/ ~top_n.ok
               THEN Raise("recommend", "An error occurred")
               ELSE IF movie_title = <<>>
               THEN Reject("recommend", "Please enter a movie title.")
               ELSE IF user_id = <<>>
               THEN Reject("recommend", "Please enter a user ID.")
               ELSE IF ~PyInt(user_id).ok
               THEN Reject("recommend", "User ID must be a number.")
               ELSE IF ~AlphaAccepted(alpha.value)
               THEN Reject("recommend", "Alpha must be between 0 and 1.")
               ELSE IF ~TopNAccepted(top_n.value)
               THEN Reject("recommend",
                           "Number of recommendations must be between 1 and 50.")
               ELSE ObtainRecommender(PyInt(user_id).value, movie_title,
                                      alpha.value, top_n.value, "recommend")

\* The rest of a handler that holds an instance: the module's
\* hybrid_recommend asks get_recommender() again and calls the method on
\* what it gets (an empty frame for None); the route answers from the frame
\* or from the exception.  An instance that never loaded has movies_df None,
\* and the method raises TypeError at its first line.
ModuleHybridRecommend ==
    /\ InHandler
    /\ LET g == get_recommender
           p == ret.parsed
           invoked == <<"get_recommender", "hybrid_recommend">>
       IN  /\ recommender' = g.recommender
           /\ UNCHANGED <<models_dir, data_files, instances, threads, call>>
           /\ IF g.loads THEN LoadModels ELSE UNCHANGED bundle
           /\ IF g.result = NoRecommender
              THEN ret' = Response(call.fn,
                                   Outcome("empty", "", <<>>, invoked))
              ELSE IF g.result = Created
              THEN ret' = Response(call.fn,
                                   Outcome("raised", "TypeError", <<>>,
                                           invoked))
              ELSE \E r \in hybrid_recommend(p.user_id, p.movie_title,
                                             p.alpha, p.top_n) :
                       ret' = Response(call.fn, Outcome(
                                  IF r.error # "" THEN "raised"
                                  ELSE IF Len(r.value) = 0 THEN "empty"
                                  ELSE "ok",
                                  r.error, r.value, invoked))

\* Bundles a training run can have saved: two items with distinct ids.
SavedBundles ==
    { [present |-> TRUE,
       movies_df |-> [i \in 1..Len(c) |->
                         [movie_id |-> c[i].movie_id, title |-> c[i].title]],
       tfidf_matrix |-> [i \in 1..Len(c) |-> c[i].vec],
       movie_id_to_index |-> MovieIdToIndex(c),
       index_to_movie_id |-> IndexToMovieId(MovieIdToIndex(c)),
       user_id_to_idx |-> IdToIdx(UserIds),
       item_id_to_idx |-> IdToIdx(ItemIds),
       user_factors |-> uf, item_factors |-> vf]
      : c \in { d \in UniqueIdCatalogs : Len(d) = 2 },
        uf \in UserFactorPool, vf \in ItemFactorPool }

\* A process that has served nothing yet: the global is None, and the
\* models directory holds a saved bundle or nothing.
InitRoutes ==
    /\ models_dir \in { NoFiles } \cup SavedBundles
    /\ recommender = NoRecommender
    /\ data_files = NoData
    /\ instances = <<>> /\ threads = <<>>
    /\ movies_df = Unset /\ ratings_df = Unset /\ tfidf_matrix = Unset
    /\ movie_id_to_index = <<>> /\ index_to_movie_id = <<>>
    /\ user_id_to_idx = Unset /\ item_id_to_idx = Unset
    /\ user_factors = Unset /\ item_factors = Unset
    /\ argsort_kind = "stable"
    /\ call = NoCall
    /\ ret = NoResult

NextRoutes ==
    \/ ApiRecommend
    \/ FormRecommend
    \/ ModuleHybridRecommend
    \/ Respond

SpecRoutes == InitRoutes /\ [][NextRoutes]_vars

---------------------------------------------------------------------------
(* The routes: what they reject *)

IsApiCall == call.fn = "api_recommend"
IsFormCall == call.fn = "recommend"

\* The parameters as the client sent them.
TitleMissingIn(args) == Strip(GetText(args.movie_title)) = <<>>
UserIdMissingOrNotIntegerIn(args) ==
    ~args.user_id.present \/ ~PyInt(args.user_id.text).ok
AlphaOutOfRangeIn(args) ==
    /\ args.alpha.present
    /\ PyFloat(args.alpha.text).ok
    /\ ~InRange(PyFloat(args.alpha.text).value, F(0), F(1))
TopNOutOfRangeIn(args) ==
    /\ args.top_n.present
    /\ PyInt(args.top_n.text).ok
    /\ PyInt(args.top_n.text).value \notin 1..50

BadRequest(args) ==
    \/ TitleMissingIn(args) \/ UserIdMissingOrNotIntegerIn(args)
    \/ AlphaOutOfRangeIn(args) \/ TopNOutOfRangeIn(args)

\* C15: /api/recommend answers 400 with an error message to a request with
\* a missing movie_title, a missing or non-integer user_id, alpha outside
\* [0,1] or top_n outside [1,50], and POST /recommend redirects such a
\* request to the index; in both routes before get_recommender or
\* hybrid_recommend is invoked, so that the step loads no model and computes
\* no recommendation.
C15_BadRequestRejected ==
    [][ (/\ call.fn = "none"
         /\ call'.fn \in {"api_recommend", "recommend"}
         /\ BadRequest(call'.args)) =>
            /\ call'.fn = "api_recommend" =>
                   (ret'.status = 400 /\ ret'.error # "")
            /\ call'.fn = "recommend" =>
                   (ret'.status = 302 /\ ret'.location = "main.index")
            /\ ret'.invoked = <<>> /\ ret'.value = <<>>
            /\ UNCHANGED <<bundle, process>> ]_vars

\* An API request whose only fault is alpha = 1.5, answered 400 while the
\* global recommender is still None although a bundle is on disk.
C15_Witness ==
    /\ IsApiCall
    /\ ~TitleMissingIn(call.args) /\ ~UserIdMissingOrNotIntegerIn(call.args)
    /\ ~TopNOutOfRangeIn(call.args)
    /\ AlphaOutOfRangeIn(call.args)
    /\ ret.status = 400
    /\ recommender = NoRecommender /\ models_dir.present

---------------------------------------------------------------------------
(* A training run (src/train.py): load_data, train_collaborative_model *)

\* movies.json: any sequence of up to MaxMovies items, the empty list too.
MovieFiles == { <<>> } \cup Catalogs

\* ratings.csv: up to MaxRatings records, pairs repeated or not.
RatingPool == [userId : {1, 2}, movieId : {1, 2}, rating : {2, 4}]
RatingFiles == UNION { [1..n -> RatingPool] : n \in 0..MaxRatings }

DefaultMovies ==
    << [movie_id |-> 1, title |-> <<"A", "b">>, vec |-> <<1, 0>>],
       [movie_id |-> 2, title |-> <<"B">>, vec |-> <<1, 0>>] >>
DefaultRatings == << [userId |-> 1, movieId |-> 1, rating |-> 4] >>

\* pd.DataFrame(movies_data): one row per item, in file order.
DataFrame(movies_data) ==
    [i \in 1..Len(movies_data) |->
        [movie_id |-> movies_data[i].movie_id, title |-> movies_data[i].title]]

\* The sorted labels of a pivot table's index or columns.
RECURSIVE Sorted(_)
Sorted(S) ==
    IF S = {} THEN <<>>
    ELSE LET m == CHOOSE x \in S : \A y \in S : x <= y
         IN  <<m>> \o Sorted(S \ {m})

\* The ratings of the records of one (userId, movieId) pair, in file order.
RECURSIVE RatingsOf(_, _, _)
RatingsOf(df, u, i) ==
    IF df = <<>> THEN <<>>
    ELSE (IF Head(df).userId = u /\ Head(df).movieId = i
          THEN <<Head(df).rating>> ELSE <<>>) \o RatingsOf(Tail(df), u, i)

RECURSIVE Sum(_)
Sum(s) == IF s = <<>> THEN 0 ELSE Head(s) + Sum(Tail(s))

\* Series.mean()
Mean(s) == Frac(Sum(s), Len(s))

\* What a cell keeps of several records of its pair, were the table built
\* by assignment: the last one.
AggregateLast(s) == F(s[Len(s)])

\* pivot_table's default aggfunc.
Aggregate(s) == Mean(s)

\* ratings_df.pivot_table(index='userId', columns='movieId',
\* values='rating', fill_value=0)
PivotTable(df) ==
    LET index == Sorted({ df[p].userId : p \in 1..Len(df) })
        columns == Sorted({ df[p].movieId : p \in 1..Len(df) })
    IN  [index |-> index, columns |-> columns,
         cells |-> [r \in 1..Len(index) |-> [c \in 1..Len(columns) |->
                      LET s == RatingsOf(df, index[r], columns[c])
                      IN  IF s = <<>> THEN F(0) ELSE Aggregate(s)]]]

RECURSIVE FSum(_)
FSum(s) == IF s = <<>> THEN F(0) ELSE FAdd(Head(s), FSum(Tail(s)))

\* user_item_matrix.mean(axis=1): over every column of the filled table.
RowMean(row) == FDiv(FSum(row), F(Len(row)))

\* row.replace(0, user_means[row.name]) on every row.
FillUserMeans(table) ==
    [table EXCEPT !.cells =
        [r \in 1..Len(table.index) |-> [c \in 1..Len(table.columns) |->
            IF table.cells[r][c] = F(0) THEN RowMean(table.cells[r])
            ELSE table.cells[r][c]]]]

\* Factor matrices of a fit: one latent vector per row, whatever its value.
Factors(n) == [1..n -> { <<F(1), F(0)>>, <<F(0), F(1)>> }]

\* HybridMovieRecommender(...): the fields as the constructor sets them.
Construct ==
    /\ movies_df' = Unset /\ ratings_df' = Unset /\ tfidf_matrix' = Unset
    /\ movie_id_to_index' = <<>> /\ index_to_movie_id' = <<>>
    /\ user_id_to_idx' = Unset /\ item_id_to_idx' = Unset
    /\ user_factors' = Unset /\ item_factors' = Unset

\* A failed or finished run is followed by a new one, on a new instance.
NewRun ==
    /\ call.fn # "none"
    /\ call' = NoCall
    /\ ret' = NoResult
    /\ Construct
    /\ UNCHANGED <<argsort_kind, process>>

\* movies_df and ratings_df are read first; the id column of an empty table
\* does not exist, and line 41 raises KeyError before either map is built.
LoadData ==
    /\ call.fn = "none"
    /\ call' = [NoCall EXCEPT !.fn = "load_data"]
    /\ movies_df' = DataFrame(data_files.movies)
    /\ ratings_df' = data_files.ratings
    /\ IF data_files.movies = <<>>
       THEN /\ ret' = [error |-> "KeyError", value |-> <<>>]
            /\ UNCHANGED <<movie_id_to_index, index_to_movie_id>>
       ELSE /\ movie_id_to_index' = MovieIdToIndex(data_files.movies)
            /\ index_to_movie_id' =
                   IndexToMovieId(MovieIdToIndex(data_files.movies))
            /\ ret' = NoResult
    /\ UNCHANGED <<tfidf_matrix, user_id_to_idx, item_id_to_idx, user_factors,
                   item_factors, argsort_kind, process>>

\* The matrix handed to TruncatedSVD is kept in ret.user_item_matrix.  The
\* fit raises ValueError on a table without cells, and with scikit-learn
\* versions that refuse n_components = 50 above the number of columns;
\* otherwise it leaves factors and id maps for the table's rows and columns.
TrainCollaborativeModel ==
    /\ call.fn = "load_data" /\ ret.error = ""
    /\ call' = [NoCall EXCEPT !.fn = "train_collaborative_model"]
    /\ LET user_item_matrix == FillUserMeans(PivotTable(ratings_df))
           user_ids == user_item_matrix.index
           item_ids == user_item_matrix.columns
       IN  \/ /\ ret' = [error |-> "ValueError", value |-> <<>>,
                         user_item_matrix |-> user_item_matrix]
              /\ UNCHANGED <<user_factors, item_factors, user_id_to_idx,
                             item_id_to_idx>>
           \/ /\ user_ids # <<>>
              /\ user_factors' \in Factors(Len(user_ids))
              /\ item_factors' \in Factors(Len(item_ids))
              /\ user_id_to_idx' = IdToIdx(user_ids)
              /\ item_id_to_idx' = IdToIdx(item_ids)
              /\ ret' = [error |-> "", value |-> <<>>,
                         user_item_matrix |-> user_item_matrix]
    /\ UNCHANGED <<movies_df, ratings_df, tfidf_matrix, movie_id_to_index,
                   index_to_movie_id, argsort_kind, process>>

\* A new instance and the data files of the run: any item file with one
\* rating file, or any rating file with one item file.
InitTrain ==
    /\ data_files \in
           { [movies |-> m, ratings |-> DefaultRatings] : m \in MovieFiles }
           \cup { [movies |-> DefaultMovies, ratings |-> r] : r \in RatingFiles }
    /\ movies_df = Unset /\ ratings_df = Unset /\ tfidf_matrix = Unset
    /\ movie_id_to_index = <<>> /\ index_to_movie_id = <<>>
    /\ user_id_to_idx = Unset /\ item_id_to_idx = Unset
    /\ user_factors = Unset /\ item_factors = Unset
    /\ argsort_kind = "stable"
    /\ recommender = NoRecommender
    /\ models_dir = NoFiles
    /\ instances = <<>> /\ threads = <<>>
    /\ call = NoCall
    /\ ret = NoResult

NextTrain == LoadData \/ TrainCollaborativeModel \/ NewRun

SpecTrain == InitTrain /\ [][NextTrain]_vars

---------------------------------------------------------------------------
(* load_data: the catalog index *)

IsLoadCall == call.fn = "load_data"

\* Two items of the file carry the same external id.
RepeatsId(movies_data) ==
    \E i, j \in 1..Len(movies_data) :
        i # j /\ movies_data[i].movie_id = movies_data[j].movie_id

\* C16: after load_data on any catalog of N items the two maps are mutually
\* inverse bijections between the external ids and the rows 0..N-1, and
\* row r of the item table holds the item whose id is index_to_movie_id[r].
C16_IdRowBijection ==
    (IsLoadCall /\ ret.error = "") =>
        /\ DOMAIN index_to_movie_id = Rows
        /\ DOMAIN movie_id_to_index = { movies_df[r + 1].movie_id : r \in Rows }
        /\ \A r \in Rows : movie_id_to_index[index_to_movie_id[r]] = r
        /\ \A i \in DOMAIN movie_id_to_index :
               index_to_movie_id[movie_id_to_index[i]] = i
        /\ \A r \in Rows : movies_df[r + 1].movie_id = index_to_movie_id[r]

\* C17: load_data fails with an error, and builds no catalog index, when
\* the item sequence is empty or two items carry the same external id.
C17_InvalidCatalogRejected ==
    (IsLoadCall /\ (data_files.movies = <<>> \/ RepeatsId(data_files.movies))) =>
        /\ ret.error # ""
        /\ movie_id_to_index = <<>>
        /\ index_to_movie_id = <<>>

---------------------------------------------------------------------------
(* train_collaborative_model: the rating matrix *)

IsTrainCall == call.fn = "train_collaborative_model"

\* The ratings of all records of one user, in file order.
RECURSIVE UserRatings(_, _)
UserRatings(df, u) ==
    IF df = <<>> THEN <<>>
    ELSE (IF Head(df).userId = u THEN <<Head(df).rating>> ELSE <<>>)
             \o UserRatings(Tail(df), u)

\* No (user, item) pair of this user has more than one record.
RatedOnce(df, u) ==
    \A p, q \in 1..Len(df) :
        (df[p].userId = u /\ df[q].userId = u /\ df[p].movieId = df[q].movieId)
            => p = q

\* C18: in the matrix handed to the factorization a cell with an observed
\* rating holds that rating, a cell without one holds the mean of the
\* user's observed ratings only, and no cell holds the zero fill in place
\* of an absent rating.
C18_ObservedOrUserMean ==
    IsTrainCall =>
        LET m == ret.user_item_matrix
        IN  \A r \in 1..Len(m.index), c \in 1..Len(m.columns) :
                LET s == RatingsOf(ratings_df, m.index[r], m.columns[c])
                IN  /\ Len(s) = 1 => m.cells[r][c] = F(s[1])
                    /\ (s = <<>> /\ RatedOnce(ratings_df, m.index[r])) =>
                           m.cells[r][c] = Mean(UserRatings(ratings_df, m.index[r]))
                    /\ s = <<>> => m.cells[r][c] # F(0)

\* C19 as stated: when the rating source holds several records of one
\* (user, item) pair, the cell holds the value of the last of them in
\* source order.
C19_LastWriteWins ==
    IsTrainCall =>
        LET m == ret.user_item_matrix
        IN  \A r \in 1..Len(m.index), c \in 1..Len(m.columns) :
                LET s == RatingsOf(ratings_df, m.index[r], m.columns[c])
                IN  Len(s) > 1 => m.cells[r][c] = F(s[Len(s)])

\* C19, amended: when the rating source holds several records of one
\* (user, item) pair, the cell holds the arithmetic mean of their values.
C19_DuplicatesAveraged ==
    IsTrainCall =>
        LET m == ret.user_item_matrix
        IN  \A r \in 1..Len(m.index), c \in 1..Len(m.columns) :
                LET s == RatingsOf(ratings_df, m.index[r], m.columns[c])
                IN  Len(s) > 1 => m.cells[r][c] = Mean(s)

\* A matrix built from two records of one pair whose values differ.
C19_Witness ==
    /\ IsTrainCall
    /\ \E u, i \in {1, 2} :
           LET s == RatingsOf(ratings_df, u, i)
           IN  Len(s) = 2 /\ s[1] # s[2]

---------------------------------------------------------------------------
(* make_combined_text: the text an item is vectorized from *)

\* A metadata field of a row: a string, or missing as NaN (key absent from
\* the item) or as None (JSON null).
Str(s) == [kind |-> "str", text |-> s]
NaNField == [kind |-> "nan", text |-> <<>>]
NoneField == [kind |-> "none", text |-> <<>>]

\* pd.notna(value)
NotNa(v) == v.kind = "str"

\* An f-string's rendering of a field: str(nan) and str(None) for the
\* missing ones.
Format(v) ==
    IF v.kind = "str" THEN v.text
    ELSE IF v.kind = "nan" THEN <<"n", "a", "n">>
    ELSE <<"N", "o", "n", "e">>

\* s.split(', ')
RECURSIVE SplitCommaSpace(_)
SplitCommaSpace(s) ==
    LET at == { i \in 1..(Len(s) - 1) : s[i] = "," /\ s[i + 1] = " " }
    IN  IF at = {} THEN <<s>>
        ELSE LET i == CHOOSE x \in at : \A y \in at : x <= y
             IN  <<SubSeq(s, 1, i - 1)>> \o
                 SplitCommaSpace(SubSeq(s, i + 2, Len(s)))

\* sep.join(parts)
RECURSIVE Join(_, _)
Join(parts, sep) ==
    IF parts = <<>> THEN <<>>
    ELSE IF Len(parts) = 1 THEN parts[1]
    ELSE parts[1] \o sep \o Join(Tail(parts), sep)

\* s.split(): the words between runs of whitespace.
RECURSIVE Words(_)
Words(s) ==
    IF s = <<>> THEN <<>>
    ELSE IF Head(s) = " " THEN Words(Tail(s))
    ELSE LET blanks == { i \in 1..Len(s) : s[i] = " " }
             stop == IF blanks = {} THEN Len(s) + 1
                     ELSE CHOOSE x \in blanks : \A y \in blanks : x <= y
         IN  <<SubSeq(s, 1, stop - 1)>> \o Words(SubSeq(s, stop, Len(s)))

make_combined_text(row) ==
    LET cast_list == IF NotNa(row.cast)
                     THEN Slice(SplitCommaSpace(row.cast.text), 0, 5)
                     ELSE <<>>
        cast_text == Join(cast_list, <<" ">>)
        combined == Join(<<Format(row.overview), Format(row.genre), cast_text,
                           Format(row.director), Format(row.director),
                           Format(row.tagline),
                           Format(row.original_language)>>, <<" ">>)
    IN  Lower(Join(Words(combined), <<" ">>))

\* Rows of the item table: every field present or missing, texts with
\* capitals and whitespace runs, casts of none, two and six names.
TextRows ==
    [overview : { NaNField, Str(<<"A", " ", " ", "b">>) },
     genre : { NoneField, Str(<<"B">>) },
     cast : { NaNField, NoneField, Str(<<>>), Str(<<"A", ",", "b">>),
              Str(<<"a", ",", " ", "b", ",", " ", "A", ",", " ", "B", ",",
                    " ", "a", ",", " ", "a", "b">>) },
     director : { NaNField, Str(<<" ", "a">>) },
     tagline : { NoneField, Str(<<"b", " ">>) },
     original_language : { NaNField, Str(<<"a">>) }]

MakeCombinedText ==
    \E row \in TextRows :
        /\ call.fn = "none"
        /\ call' = [fn |-> "make_combined_text", row |-> row] @@ NoCall
        /\ ret' = [error |-> "", value |-> make_combined_text(row)]
        /\ UNCHANGED <<bundle, process>>

NextText == MakeCombinedText \/ Respond

\* A new instance; the method reads nothing but the row it is given.
InitText ==
    /\ InitTrain
    /\ data_files = [movies |-> DefaultMovies, ratings |-> DefaultRatings]

SpecText == InitText /\ [][NextText]_vars

IsTextCall == call.fn = "make_combined_text"

\* What a field contributes to the reference text: its text, or nothing
\* when it is missing.
FieldText(v) == IF v.kind = "str" THEN v.text ELSE <<>>

\* The reference text of an item.
ReferenceText(row) ==
    Lower(Join(Words(Join(
        <<FieldText(row.overview), FieldText(row.genre),
          Join(Slice(SplitCommaSpace(FieldText(row.cast)), 0, 5), <<" ">>),
          FieldText(row.director), FieldText(row.director),
          FieldText(row.tagline), FieldText(row.original_language)>>,
        <<" ">>)), <<" ">>))

\* C20: make_combined_text equals the reference text: overview, genre, at
\* most the first five cast names, director twice, tagline and language
\* code in that order, joined by single spaces, whitespace runs collapsed
\* and letters lowercased, a missing field (cast or any other) contributing
\* the empty string; the same on every call with the same fields.
C20_CombinedTextIsReference ==
    IsTextCall => ret.value = ReferenceText(call.row)

---------------------------------------------------------------------------
(* The index spaces of the collaborative score *)

\* x brought into [1, 5]
Clamped(x) == IF FLt(x, F(1)) THEN F(1) ELSE IF FLt(F(5), x) THEN F(5) ELSE x

\* C29: for a known user u and a candidate row r whose external id
\* index_to_movie_id[r] is in the rating space, the score is the dot product
\* of user_factors[user_id_to_idx[u]] and
\* item_factors[item_id_to_idx[index_to_movie_id[r]]] clamped to [1, 5] (a
\* NaN product is scored inside the range); the row r itself never indexes
\* the item-factor matrix.
C29_ScoreThroughIdTranslation ==
    (IsCollabCall /\ UserKnown) =>
        \A i \in 1..Len(ret.value) :
            Rated(call.movie_indices[i]) =>
                LET p == Prediction(call.user_id, call.movie_indices[i])
                IN  /\ InRange(ret.value[i], F(1), F(5))
                    /\ ~IsNaN(p) => ret.value[i] = Clamped(p)

\* C29 witness: a returned score of a rated row r whose item-factor row is
\* not r, and differs from the score row r of the matrix would give.
C29_Witness ==
    /\ IsCollabCall
    /\ UserKnown
    /\ ret.error = ""
    /\ \E i \in 1..Len(ret.value) :
           LET r == call.movie_indices[i]
           IN  /\ Rated(r)
               /\ item_id_to_idx[index_to_movie_id[r]] # r
               /\ r + 1 \in DOMAIN item_factors
               /\ ~IsNaN(Prediction(call.user_id, r))
               /\ ret.value[i] = Clamped(Prediction(call.user_id, r))
               /\ ret.value[i] #
                      Clamped(Dot(user_factors[user_id_to_idx[call.user_id] + 1],
                                  item_factors[r + 1]))

---------------------------------------------------------------------------
(* Requests made while the model files are absent *)

\* Every parameter is absent where it has a default, or well formed, and
\* inside its range.
ValidRequest(args) ==
    /\ ~BadRequest(args)
    /\ args.alpha.present => PyFloat(args.alpha.text).ok
    /\ args.top_n.present => PyInt(args.top_n.text).ok

\* A route has answered a request with valid parameters.
AnsweredValid ==
    /\ call.fn \in {"api_recommend", "recommend"}
    /\ ~InHandler
    /\ ValidRequest(call.args)

\* C26: while the model files are absent, every valid /api/recommend request
\* is answered 503 'Recommendation system not available' and every valid
\* form request is redirected with that message, the first request and
\* every later one; none ends in a 500 or an unhandled failure.
C26_AbsentModelsNotAvailable ==
    (AnsweredValid /\ ~models_dir.present) =>
        /\ IsApiCall =>
               /\ ret.status = 503
               /\ ret.error = "Recommendation system not available"
        /\ IsFormCall =>
               /\ ret.status = 302
               /\ ret.location = "main.index"
               /\ ret.error =
                      "Recommendation system not available. Please run train.py first."

---------------------------------------------------------------------------
(* What serving a request leaves alone *)

\* C27 as stated, for its first item and with the bundle on disk: every
\* step of serving a recommendation request leaves the global recommender
\* reference as it was (the artifacts are loaded in the step that sets it).
C27_ServingReadOnly ==
    [][models_dir.present => UNCHANGED recommender]_recommender

\* C27: once get_recommender has set the global recommender reference,
\* serving a recommendation request (the routes, the module's
\* hybrid_recommend and the method, for any parameters and any outcome)
\* leaves the global reference, the loaded artifacts, the id maps and the
\* item table unchanged.
C27_ServingReadOnlyOnceSet ==
    [][recommender # NoRecommender => UNCHANGED <<bundle, process>>]_vars

\* C27 witness: the module's hybrid_recommend has returned recommendations
\* from the loaded instance, and the route has answered 200.
C27_Witness ==
    /\ IsApiCall
    /\ ~InHandler
    /\ ret.status = 200
    /\ Len(ret.value) > 0
    /\ ret.invoked = <<"get_recommender", "hybrid_recommend">>
    /\ recommender = Loaded

---------------------------------------------------------------------------
(* The movie search (/api/movies, src/app/routes.py) *)

\* Series.str.contains(query, case=False, na=False): the query is compiled
\* as a regular expression and searched in the title ignoring case.  Of the
\* characters of the model "." stands for any character and an unclosed "("
\* makes re.compile raise; every other character stands for itself.
ReCompiles(pattern) == \A i \in 1..Len(pattern) : pattern[i] # "("

ReSearch(pattern, title) ==
    \E k \in 0..(Len(title) - Len(pattern)) :
        \A i \in 1..Len(pattern) :
            \/ pattern[i] = "."
            \/ LowerCh(pattern[i]) = LowerCh(title[k + i])

\* DataFrame.head(n): the first n rows, all but the last -n for n < 0.
HeadRows(df, n) ==
    IF n >= 0 THEN SubSeq(df, 1, Min2(n, Len(df)))
    ELSE SubSeq(df, 1, IF Len(df) + n > 0 THEN Len(df) + n ELSE 0)

\* Search parameters a client can send.
MovieRequests ==
    [q : { Absent, Text(<<>>), Text(<<" ", "b">>), Text(<<"B">>),
           Text(<<".">>), Text(<<"(">>), Text(<<"c">>) },
     limit : { Absent, Text(<<"0">>), Text(<<"1">>), Text(<<"2">>),
               Text(<<"-", "1">>), Text(<<"x">>) }]

MoviesResponse(status, error, query, movies) ==
    [status |-> status, error |-> error, query |-> query,
     total |-> Len(movies),
     value |-> [i \in 1..Len(movies) |->
                   [movie_id |-> movies[i].movie_id,
                    title |-> movies[i].title]]]

\* api_movies: table is recommender.movies_df as get_recommender leaves it,
\* None on an instance that never loaded.
ApiMovies ==
    \E args \in MovieRequests :
        /\ call.fn = "none"
        /\ call' = [fn |-> "api_movies", args |-> args] @@ NoCall
        /\ LET query == Strip(GetText(args.q))
               limit == ArgsGet(args.limit, Some(20), "int").value
               g == get_recommender
               table == IF g.loads THEN models_dir.movies_df ELSE movies_df
           IN  /\ recommender' = g.recommender
               /\ UNCHANGED <<models_dir, data_files, instances, threads>>
               /\ IF g.loads THEN LoadModels ELSE UNCHANGED bundle
               /\ ret' =
                    IF g.result = NoRecommender
                    THEN MoviesResponse(503, "Recommendation system not available",
                                        query, <<>>)
                    ELSE IF g.result = Created
                    THEN MoviesResponse(500, IF query # <<>> THEN "TypeError"
                                             ELSE "AttributeError", query, <<>>)
                    ELSE IF query # <<>> /\ ~ReCompiles(query)
                    THEN MoviesResponse(500, "re.error", query, <<>>)
                    ELSE MoviesResponse(200, "", query,
                             HeadRows(IF query # <<>>
                                      THEN SelectSeq(table,
                                               LAMBDA row : ReSearch(query, row.title))
                                      ELSE table,
                                      limit))

NextMovies == ApiMovies \/ Respond

SpecMovies == InitRoutes /\ [][NextMovies]_vars

---------------------------------------------------------------------------
(* Properties of the movie search *)

IsMoviesCall == call.fn = "api_movies"

\* The query and the limit of the request as the route reads them.
SearchQuery == Strip(GetText(call.args.q))
SearchLimit == ArgsGet(call.args.limit, Some(20), "int").value

\* The catalog items whose title contains the query ignoring case, in row
\* order; every item for the empty query.
TitleContains ==
    SelectSeq(movies_df,
              LAMBDA row : StrIn(Lower(SearchQuery), Lower(row.title)))

\* C28: for a query q and a limit L >= 0 the movie search returns exactly
\* the first L catalog items, in row order, whose title contains q ignoring
\* case (the first L items for the empty query), reports as total the
\* number of items returned, and answers 503 when no recommender is
\* available.
C28_MovieSearch ==
    (IsMoviesCall /\ SearchLimit >= 0) =>
        /\ ~models_dir.present => ret.status = 503
        /\ models_dir.present =>
               LET found == SubSeq(TitleContains, 1,
                                   Min2(SearchLimit, Len(TitleContains)))
               IN  /\ ret.status = 200
                   /\ ret.value =
                          [i \in 1..Len(found) |->
                              [movie_id |-> found[i].movie_id,
                               title |-> found[i].title]]
                   /\ ret.total = Len(ret.value)

---------------------------------------------------------------------------
(* The models directory file by file (save_models, load_models,            *)
(* src/app/utils.py), the request threads of the serving process inside    *)
(* get_recommender, and the training run of src/train.py.  Here models_dir *)
(* maps a file name to what the file holds, recommender names the          *)
(* instance the global refers to, and an artifact is known by its field    *)
(* and the training run that produced it.                                  *)

\* The files save_models writes, in its order, each with the field dumped.
SavedFiles ==
    << <<"tfidf.pkl", "tfidf_vectorizer">>,
       <<"tfidf_matrix.pkl", "tfidf_matrix">>,
       <<"svd.pkl", "svd_model">>,
       <<"user_factors.pkl", "user_factors">>,
       <<"item_factors.pkl", "item_factors">>,
       <<"user_ids.pkl", "user_ids">>,
       <<"item_ids.pkl", "item_ids">>,
       <<"user_id_to_idx.pkl", "user_id_to_idx">>,
       <<"item_id_to_idx.pkl", "item_id_to_idx">>,
       <<"movie_id_to_index.pkl", "movie_id_to_index">>,
       <<"index_to_movie_id.pkl", "index_to_movie_id">>,
       <<"movies_df.pkl", "movies_df">> >>

\* The id files read into each other's field.
LoadedFilesCrossed ==
    [i \in 1..Len(SavedFiles) |->
        IF i = 6 THEN <<"user_ids.pkl", "item_ids">>
        ELSE IF i = 7 THEN <<"item_ids.pkl", "user_ids">>
        ELSE SavedFiles[i]]

\* The files load_models reads, in its order, each with the field assigned.
LoadedFiles ==
    << <<"tfidf.pkl", "tfidf_vectorizer">>,
       <<"tfidf_matrix.pkl", "tfidf_matrix">>,
       <<"svd.pkl", "svd_model">>,
       <<"user_factors.pkl", "user_factors">>,
       <<"item_factors.pkl", "item_factors">>,
       <<"user_ids.pkl", "user_ids">>,
       <<"item_ids.pkl", "item_ids">>,
       <<"user_id_to_idx.pkl", "user_id_to_idx">>,
       <<"item_id_to_idx.pkl", "item_id_to_idx">>,
       <<"movie_id_to_index.pkl", "movie_id_to_index">>,
       <<"index_to_movie_id.pkl", "index_to_movie_id">>,
       <<"movies_df.pkl", "movies_df">> >>

\* HybridMovieRecommender(): no field holds an artifact.  The value of a
\* field is known by the field and by the training run that computed it
\* ("init" for what the constructor left).
FreshInstance ==
    [field \in { LoadedFiles[i][2] : i \in 1..Len(LoadedFiles) } |->
        [field |-> field, run |-> "init"]]

\* A name without a file.
NoFile == [exists |-> FALSE, readable |-> FALSE]

\* utils.save_model: the directory after joblib.dump wrote the file, which
\* joblib.load reads back as the value (save_models writes movies_df.pkl
\* with to_pickle and load_models reads it with read_pickle, likewise).
save_model(model, filename, dir) ==
    [dir EXCEPT ![filename] =
        [exists |-> TRUE, readable |-> TRUE, value |-> model]]

\* utils.load_model: FileNotFoundError for a missing file, the unpickling
\* error for a file that cannot be read, else the value.  The joblib.load
\* and read_pickle calls of load_models fail and succeed the same way.
load_model(filename, dir) ==
    IF ~dir[filename].exists
    THEN [error |-> "FileNotFoundError", value |-> NoFile]
    ELSE IF ~dir[filename].readable
    THEN [error |-> "UnpicklingError", value |-> NoFile]
    ELSE [error |-> "", value |-> dir[filename].value]

\* utils.get_model_info: every file of the model ends in .pkl.
get_model_info(dir) ==
    LET models == { f \in DOMAIN dir : dir[f].exists }
        required_models == {"tfidf.pkl", "tfidf_matrix.pkl", "svd.pkl",
                            "movies_df.pkl"}
        missing_models == required_models \ models
    IN  [available_models |-> models, total_models |-> Cardinality(models),
         missing_models |-> missing_models, is_ready |-> missing_models = {}]

\* utils.validate_models
validate_models(dir) ==
    LET required_models == {"tfidf.pkl", "tfidf_matrix.pkl", "svd.pkl",
                            "movies_df.pkl"}
    IN  \A model_file \in required_models : load_model(model_file, dir).error = ""

\* The request threads of app.run(threaded=True); the training process is
\* "train".
Threads == {"t1", "t2"}

\* get_recommender, line 284: the thread reads the global.
GetRecommender(t) ==
    /\ threads[t].pc = "idle"
    /\ threads' = [threads EXCEPT ![t] =
                      [@ EXCEPT !.fn = "get_recommender",
                                !.pc = IF recommender = NoRecommender
                                       THEN "create" ELSE "return"]]
    /\ UNCHANGED <<bundle, recommender, models_dir, data_files, instances,
                   call, ret>>

\* Line 285: the new instance is assigned to the global before it loads.
\* since keeps how far the training run was when the instance was made.
CreateRecommender(t) ==
    /\ threads[t].pc = "create"
    /\ recommender' = t
    /\ instances' = [instances EXCEPT ![t] = FreshInstance]
    /\ threads' = [threads EXCEPT ![t] =
                      [@ EXCEPT !.pc = "load", !.k = 1,
                                !.since = threads["train"].pc]]
    /\ UNCHANGED <<bundle, models_dir, data_files, call, ret>>

\* load_models, one file per step: the field is assigned as soon as its
\* file is read.  FileNotFoundError is caught by get_recommender, which
\* returns None (lines 288-290); any other error leaves get_recommender.
LoadModelsStep(t) ==
    /\ threads[t].pc = "load"
    /\ LET k == threads[t].k
           read == load_model(LoadedFiles[k][1], models_dir)
       IN  IF read.error # ""
           THEN /\ threads' = [threads EXCEPT ![t] =
                                 [@ EXCEPT !.pc = "done",
                                           !.error = read.error,
                                           !.result =
                                               IF read.error = "FileNotFoundError"
                                               THEN NoRecommender ELSE "raised"]]
                /\ UNCHANGED instances
           ELSE /\ instances' = [instances EXCEPT ![t][LoadedFiles[k][2]] =
                                                      read.value]
                /\ threads' = [threads EXCEPT ![t] =
                                 IF k = Len(LoadedFiles)
                                 THEN [@ EXCEPT !.pc = "return"]
                                 ELSE [@ EXCEPT !.k = k + 1]]
    /\ UNCHANGED <<bundle, recommender, models_dir, data_files, call, ret>>

\* Line 291: what the global refers to now is returned.
ReturnRecommender(t) ==
    /\ threads[t].pc = "return"
    /\ threads' = [threads EXCEPT ![t] =
                      [@ EXCEPT !.pc = "done", !.result = recommender]]
    /\ UNCHANGED <<bundle, recommender, models_dir, data_files, instances,
                   call, ret>>

\* /api/status: ready when get_model_info finds the required files and
\* validate_models can load them; the answer lists the files found.
ApiStatus(t) ==
    /\ threads[t].pc = "idle"
    /\ LET model_info == get_model_info(models_dir)
           is_ready == IF model_info.is_ready THEN validate_models(models_dir)
                       ELSE FALSE
       IN  threads' = [threads EXCEPT ![t] =
                          [@ EXCEPT !.fn = "api_status", !.pc = "done",
                                    !.result = IF is_ready THEN "ready"
                                               ELSE "not_ready",
                                    !.seen = model_info.available_models]]
    /\ UNCHANGED <<bundle, recommender, models_dir, data_files, instances,
                   call, ret>>

\* save_model(test_model, "test_model.pkl", models_dir), as the test does.
SaveModel(t) ==
    /\ threads[t].pc = "idle"
    /\ models_dir' = save_model([field |-> "test_model", run |-> t],
                                "test_model.pkl", models_dir)
    /\ threads' = [threads EXCEPT ![t] =
                      [@ EXCEPT !.fn = "save_model", !.pc = "done"]]
    /\ UNCHANGED <<bundle, recommender, data_files, instances, call, ret>>

\* train.py main up to save_models: cleanup_models when the operator
\* answers yes, then load_data, prepare_content_data and
\* train_collaborative_model, any of which may raise (sys.exit(1)).
TrainMain ==
    /\ threads["train"].pc = "idle"
    /\ \E cleanup_choice \in BOOLEAN, trained \in BOOLEAN :
           /\ models_dir' = IF cleanup_choice
                            THEN [f \in DOMAIN models_dir |-> NoFile]
                            ELSE models_dir
           /\ IF trained
              THEN /\ instances' =
                         [instances EXCEPT !["train"] =
                             [field \in DOMAIN FreshInstance |->
                                 [field |-> field, run |-> "new"]]]
                   /\ threads' = [threads EXCEPT !["train"] =
                                    [@ EXCEPT !.fn = "main", !.pc = "save",
                                              !.k = 1]]
              ELSE /\ threads' = [threads EXCEPT !["train"] =
                                    [@ EXCEPT !.fn = "main", !.pc = "failed",
                                              !.error = "Exception"]]
                   /\ UNCHANGED instances
    /\ UNCHANGED <<bundle, recommender, data_files, call, ret>>

\* save_models, one file per step: the dump succeeds, or raises OSError
\* leaving the name as it was or with a file that cannot be read; main
\* logs the failure and exits.
SaveModelsStep ==
    /\ threads["train"].pc = "save"
    /\ LET k == threads["train"].k
           file == SavedFiles[k][1]
           value == instances["train"][SavedFiles[k][2]]
       IN  \/ /\ models_dir' = save_model(value, file, models_dir)
              /\ threads' = [threads EXCEPT !["train"] =
                               IF k = Len(SavedFiles)
                               THEN [@ EXCEPT !.pc = "saved"]
                               ELSE [@ EXCEPT !.k = k + 1]]
           \/ /\ models_dir' \in
                     { models_dir,
                       [save_model(value, file, models_dir)
                           EXCEPT ![file].readable = FALSE] }
              /\ threads' = [threads EXCEPT !["train"] =
                               [@ EXCEPT !.pc = "failed", !.error = "OSError"]]
    /\ UNCHANGED <<bundle, recommender, data_files, instances, call, ret>>

\* A serving process that has served nothing, a training run not yet
\* started, and a models directory holding the bundle of an earlier run
\* whole, without one of its files, with one file unreadable, or nothing.
InitFiles ==
    /\ movies_df = Unset /\ ratings_df = Unset /\ tfidf_matrix = Unset
    /\ movie_id_to_index = <<>> /\ index_to_movie_id = <<>>
    /\ user_id_to_idx = Unset /\ item_id_to_idx = Unset
    /\ user_factors = Unset /\ item_factors = Unset
    /\ argsort_kind = "stable"
    /\ data_files = NoData
    /\ call = NoCall
    /\ ret = NoResult
    /\ recommender = NoRecommender
    /\ instances = [i \in Threads \cup {"train"} |-> FreshInstance]
    /\ threads = [i \in Threads \cup {"train"} |->
                     [pc |-> "idle", fn |-> "none", k |-> 0,
                      result |-> "none", error |-> "", seen |-> {},
                      since |-> "none"]]
    /\ LET names == { SavedFiles[i][1] : i \in 1..Len(SavedFiles) }
                        \cup {"test_model.pkl"}
           old == [f \in names |->
                      IF \E i \in 1..Len(SavedFiles) : SavedFiles[i][1] = f
                      THEN [exists |-> TRUE, readable |-> TRUE,
                            value |-> [field |-> SavedFiles[
                                           CHOOSE i \in 1..Len(SavedFiles) :
                                               SavedFiles[i][1] = f][2],
                                       run |-> "old"]]
                      ELSE NoFile]
       IN  models_dir \in
               { old, [f \in names |-> NoFile] }
               \cup { [old EXCEPT ![f] = NoFile] :
                         f \in {"tfidf.pkl", "user_factors.pkl", "movies_df.pkl"} }
               \cup { [old EXCEPT !["item_ids.pkl"].readable = FALSE] }

\* One request thread beside the training run.
NextFiles ==
    \/ GetRecommender("t1")
    \/ CreateRecommender("t1")
    \/ LoadModelsStep("t1")
    \/ ReturnRecommender("t1")
    \/ ApiStatus("t1")
    \/ SaveModel("t1")
    \/ TrainMain
    \/ SaveModelsStep

SpecFiles == InitFiles /\ [][NextFiles]_vars

\* The request threads inside get_recommender, no training run beside.
NextThreads ==
    \E t \in Threads :
        \/ GetRecommender(t)
        \/ CreateRecommender(t)
        \/ LoadModelsStep(t)
        \/ ReturnRecommender(t)

SpecThreads == InitFiles /\ [][NextThreads]_vars

---------------------------------------------------------------------------
(* Properties of load_models, save_models and the health check *)

\* Thread t has left get_recommender's load_models with an error / with
\* every file read.
LoadFailed(t) == threads[t].fn = "get_recommender" /\ threads[t].error # ""
LoadCompleted(t) ==
    /\ threads[t].fn = "get_recommender"
    /\ threads[t].since # "none"
    /\ threads[t].error = ""
    /\ threads[t].pc \in {"return", "done"}

\* C21: when a file load_models reads is absent or unreadable, load_models
\* raises and leaves every artifact field with the value it had before the
\* call, whichever file it is.
C21_FailedLoadLoadsNothing ==
    \A t \in Threads : LoadFailed(t) => instances[t] = FreshInstance

\* C22: whenever /api/status reports ready (get_model_info.is_ready and
\* validate_models), every file load_models reads from the directory is
\* there and loads.
C22_ReadyImpliesLoadable ==
    [][ \A t \in Threads :
          (/\ threads[t].pc = "idle"
           /\ threads'[t].fn = "api_status"
           /\ threads'[t].result = "ready") =>
              \A i \in 1..Len(LoadedFiles) :
                  load_model(LoadedFiles[i][1], models_dir).error = "" ]_vars

\* C23: an instance made after save_models returned, once load_models has
\* read every file, holds in each field the artifact the trained instance
\* held in that field; and load_model gives back the model save_model wrote
\* under the same name, in any directory.
C23_SaveLoadRoundTrip ==
    /\ \A t \in Threads :
           (LoadCompleted(t) /\ threads[t].since = "saved") =>
               \A field \in DOMAIN instances[t] :
                   instances[t][field] = instances["train"][field]
    /\ \A x \in { instances[i] : i \in DOMAIN instances } :
           load_model("test_model.pkl",
                      save_model(x, "test_model.pkl", models_dir))
               = [error |-> "", value |-> x]

\* C23 witness: the training run saved over the bundle of an earlier run,
\* and a thread then made an instance and loaded all twelve artifacts of
\* the new run.
C23_Witness ==
    /\ threads["train"].pc = "saved"
    /\ LoadCompleted("t1")
    /\ threads["t1"].since = "saved"
    /\ threads["t1"].result = "t1"
    /\ \A field \in DOMAIN instances["t1"] :
           /\ instances["t1"][field].run = "new"
           /\ instances["t1"][field].field = field

\* C24: a load_models that runs while save_models writes a new bundle ends
\* with artifacts of one training run: all of the earlier run or all of the
\* new one.
C24_NoMixedBundle ==
    \A t \in Threads :
        LoadCompleted(t) =>
            \E run \in {"old", "new"} :
                \A field \in DOMAIN instances[t] : instances[t][field].run = run

\* The artifact files of the directory that the training run wrote.
WrittenByRun ==
    { i \in 1..Len(SavedFiles) :
        /\ models_dir[SavedFiles[i][1]].exists
        /\ models_dir[SavedFiles[i][1]].value.run = "new" }

\* C25: a training run that fails, at any step, leaves in the models
\* directory none of its artifact files or all of them.
C25_FailedRunLeavesNoPartialBundle ==
    threads["train"].pc = "failed" =>
        Cardinality(WrittenByRun) \in {0, Len(SavedFiles)}

---------------------------------------------------------------------------
(* Properties of concurrent get_recommender calls *)

\* Every file load_models reads is there and loads.
AllFilesPresent ==
    \A i \in 1..Len(LoadedFiles) :
        load_model(LoadedFiles[i][1], models_dir).error = ""

\* C30: with all model files present and the global unset at first, every
\* thread that get_recommender hands a recommender gets one whose
\* load_models has completed (every artifact field set), and the threads
\* get the same instance.
C30_ThreadsShareLoadedInstance ==
    AllFilesPresent =>
        \A t, u \in Threads :
            (threads[t].pc = "done" /\ threads[t].result \in Threads) =>
                /\ \A field \in DOMAIN FreshInstance :
                       instances[threads[t].result][field].run # "init"
                /\ threads[u].pc = "done" =>
                       threads[u].result = threads[t].result

===========================================================================
